---- MODULE Spec2Model ----
(***************************************************************************)
(* A model of the peer-to-peer chunk transfer node of src/src/peer.py and  *)
(* of the congestion controller of src/src/congestion_control.py.          *)
(*                                                                         *)
(* Every peer runs the same event loop (peer_run): it handles one inbound  *)
(* datagram (process_inbound_udp) or one operator command                  *)
(* (process_user_input / process_download) per step.  The datagram channel *)
(* is a bag of datagrams in flight: it may delay, reorder, lose and        *)
(* duplicate them.                                                         *)
(*                                                                         *)
(* Sizes are scaled: a chunk is SegsPerChunk segments of MAX_PAYLOAD bytes *)
(* (512 segments of 1024 bytes in the source), and a byte of the chunk     *)
(* with digest h is the pair <<h, i>>, i its position, so that any         *)
(* misplaced, missing or foreign byte is visible.                          *)
(***************************************************************************)
EXTENDS Naturals, Integers, Sequences, FiniteSets, Bags, TLC

VARIABLES
    has_chunks,   \* g_context.has_chunks of each peer: digest -> bytes
    max_conn,     \* g_context.max_conn of each peer
    needed,       \* g_needed_chunks of each peer
    downloaded,   \* g_downloaded_chunks of each peer: digest -> bytes
    dsess,        \* g_download_sessions of each peer, in insertion order
    usess,        \* g_upload_sessions of each peer: remote peer -> session
    files,        \* what each peer has persisted at its output path
    net,          \* the datagrams in flight (a bag)
    crashed,      \* the peers whose process has been terminated
    env,          \* what the environment has done so far (counters)
    obs,          \* observer of the sessions: ACKs seen, segments unacked, taken
    ctl,          \* an object on its own (a CongestionController, the Packet
                  \* codec) and the last call made on it
    last          \* the last handler run: who, on what, and what it sent

vars == <<has_chunks, max_conn, needed, downloaded, dsess, usess, files,
          net, crashed, env, obs, ctl, last>>

peerVars == <<has_chunks, max_conn, needed, downloaded, dsess, usess, files>>

----------------------------------------------------------------------------
(* Bounds of the model *)

Peers == {1, 2, 3}
Hashes == {"A", "B"}

MAX_PAYLOAD == 2
SegsPerChunk == 3
MaxDownloads == 2
MaxLoss == 1
MaxWindow == 7
MaxDenominator == 10
MaxDupAcks == 5

CHUNK_DATA_SIZE == SegsPerChunk * MAX_PAYLOAD

\* struct.calcsize("BBHII")
HEADER_LEN == 12

\* class PktType
WHOHAS == 0
IHAVE == 1
GET == 2
DATA == 3
ACK == 4
DENIED == 5

\* The size in bytes of one digest in a payload
HASH_LEN == 20

----------------------------------------------------------------------------
(* Helpers for Python's dict, list and bytes *)

Put(f, k, v) == [x \in (DOMAIN f) \cup {k} |-> IF x = k THEN v ELSE f[x]]

Drop(f, k) == [x \in (DOMAIN f) \ {k} |-> f[x]]

\* dict.update: the entries of g override those of f
Update(f, g) == [x \in (DOMAIN f) \cup (DOMAIN g) |->
                    IF x \in DOMAIN g THEN g[x] ELSE f[x]]

Range(s) == {s[i] : i \in DOMAIN s}

Min(S) == CHOOSE x \in S : \A y \in S : x <= y

\* data[lo:hi] of Python, 0-based, hi exclusive, both within the data
Slice(data, lo, hi) == SubSeq(data, lo + 1, hi)

RemoveAt(s, i) == SubSeq(s, 1, i - 1) \o SubSeq(s, i + 1, Len(s))

RECURSIVE SeqToBag(_)
SeqToBag(s) == IF s = <<>> THEN EmptyBag
               ELSE SetToBag({Head(s)}) (+) SeqToBag(Tail(s))

\* The bytes of the chunk with digest h (content-addressed)
ChunkData(h) == [i \in 1..CHUNK_DATA_SIZE |-> <<h, i>>]

----------------------------------------------------------------------------
(* Packet codec (class Packet) *)

\* The native "H" of a little-endian host without htons: small end first
BE16_little(x) == <<x % 256, (x \div 256) % 256>>

\* htons followed by the native "H" of struct.pack: two bytes, big end first
BE16(x) == <<(x \div 256) % 256, x % 256>>

\* htonl followed by the native "I" of struct.pack: four bytes, big end first
BE32(x) == <<(x \div 16777216) % 256, (x \div 65536) % 256,
             (x \div 256) % 256, x % 256>>

FromBE16(b) == b[1] * 256 + b[2]

FromBE32(b) == b[1] * 16777216 + b[2] * 65536 + b[3] * 256 + b[4]

build_header(pkt_type, seq, ack, payload_len) ==
    <<pkt_type, HEADER_LEN>> \o BE16(HEADER_LEN + payload_len)
        \o BE32(seq) \o BE32(ack)

\* len(payload): a payload of digests counts HASH_LEN bytes for each
len_payload(pkt_type, payload) ==
    IF pkt_type \in {WHOHAS, IHAVE, GET} THEN HASH_LEN * Len(payload)
    ELSE Len(payload)

build_packet(pkt_type, seq, ack, payload) ==
    [hdr |-> build_header(pkt_type, seq, ack, len_payload(pkt_type, payload)),
     payload |-> payload]

\* (pkt_type, hlen, plen, seq, ack)
parse_header(pkt) ==
    <<pkt.hdr[1], pkt.hdr[2], FromBE16(SubSeq(pkt.hdr, 3, 4)),
      FromBE32(SubSeq(pkt.hdr, 5, 8)), FromBE32(SubSeq(pkt.hdr, 9, 12))>>

\* bytes.fromhex(chunk_hash_str): the HASH_LEN bytes of a digest travel as one
\* unit, marked with position 0 (no byte of a chunk has it)
fromhex(chunk_hash_str) == <<chunk_hash_str, 0>>

\* chunk_hash_bytes.hex()
hex(chunk_hash_bytes) == chunk_hash_bytes[1]

\* The payload that concatenates the digests of a list of hex strings
HashPayload(hashes) == [i \in DOMAIN hashes |-> fromhex(hashes[i])]

\* The hex strings of the num_hashes = len(payload) // 20 digests of a payload
PayloadHashes(payload) == [i \in DOMAIN payload |-> hex(payload[i])]

\* sock.sendto(pkt, addr) by peer p
Dgram(p, addr, pkt) == [src |-> p, dst |-> addr, pkt |-> pkt]

----------------------------------------------------------------------------
(* class DownloadSession *)

DownloadSession(chunk_hash, peer_addr) ==
    [chunk_hash |-> chunk_hash, peer_addr |-> peer_addr, data |-> <<>>,
     expected_seq |-> 1, completed |-> FALSE, last_ack_time |-> 0]

\* An add_data that also accepts a segment beyond the expected one
add_data_beyond(s, seq, data) ==
    IF seq >= s.expected_seq
    THEN [s |-> [s EXCEPT !.data = s.data \o data,
                          !.expected_seq = s.expected_seq + 1,
                          !.completed = (s.completed
                              \/ Len(s.data \o data) >= CHUNK_DATA_SIZE)],
          ret |-> TRUE]
    ELSE [s |-> s, ret |-> FALSE]

\* An add_data that takes the expected segment without expecting the next
add_data_again(s, seq, data) ==
    IF seq = s.expected_seq
    THEN [s |-> [s EXCEPT !.data = s.data \o data,
                          !.completed = (s.completed
                              \/ Len(s.data \o data) >= CHUNK_DATA_SIZE)],
          ret |-> TRUE]
    ELSE [s |-> s, ret |-> FALSE]

\* DownloadSession.add_data: the session afterwards, and the value returned
add_data(s, seq, data) ==
    IF seq = s.expected_seq
    THEN [s |-> [s EXCEPT !.data = s.data \o data,
                          !.expected_seq = s.expected_seq + 1,
                          !.completed = (s.completed
                              \/ Len(s.data \o data) >= CHUNK_DATA_SIZE)],
          ret |-> TRUE]
    ELSE [s |-> s, ret |-> FALSE]

(* class UploadSession *)

UploadSession(chunk_hash, chunk_data, peer_addr) ==
    [chunk_hash |-> chunk_hash, chunk_data |-> chunk_data,
     peer_addr |-> peer_addr, next_seq |-> 1, completed |-> FALSE,
     last_send_time |-> 0]

\* A get_next_data that returns the segment after the one next_seq names
get_next_data_ahead(s) ==
    LET offset == s.next_seq * MAX_PAYLOAD
        end == IF offset + MAX_PAYLOAD <= Len(s.chunk_data)
               THEN offset + MAX_PAYLOAD ELSE Len(s.chunk_data)
    IN  IF s.completed \/ offset >= Len(s.chunk_data)
        THEN [s |-> s, some |-> FALSE, seq |-> 0, data |-> <<>>]
        ELSE [s |-> s, some |-> TRUE, seq |-> s.next_seq + 1,
              data |-> Slice(s.chunk_data, offset, end)]

\* UploadSession.get_next_data: the session afterwards, whether a segment is
\* returned (some), and the segment (seq, data)
get_next_data(s) ==
    LET offset == (s.next_seq - 1) * MAX_PAYLOAD
        end == IF offset + MAX_PAYLOAD <= Len(s.chunk_data)
               THEN offset + MAX_PAYLOAD ELSE Len(s.chunk_data)
    IN  IF s.completed
        THEN [s |-> s, some |-> FALSE, seq |-> 0, data |-> <<>>]
        ELSE IF offset >= Len(s.chunk_data)
        THEN [s |-> [s EXCEPT !.completed = TRUE], some |-> FALSE,
              seq |-> 0, data |-> <<>>]
        ELSE [s |-> s, some |-> TRUE, seq |-> s.next_seq,
              data |-> Slice(s.chunk_data, offset, end)]

\* A handle_ack that takes the acknowledgement of the segment after the one
\* outstanding for the one that advances the session
handle_ack_late(s, ack_num) ==
    IF ack_num = s.next_seq + 1
    THEN [s |-> [s EXCEPT !.next_seq = s.next_seq + 1,
                          !.completed = (s.completed
                              \/ s.next_seq * MAX_PAYLOAD >= Len(s.chunk_data))],
          ret |-> TRUE]
    ELSE [s |-> s, ret |-> FALSE]

\* A handle_ack that takes an acknowledgement as cumulative: any number from
\* next_seq up advances the session past it
handle_ack_cumulative(s, ack_num) ==
    IF ack_num >= s.next_seq
    THEN [s |-> [s EXCEPT !.next_seq = ack_num + 1,
                          !.completed = (s.completed
                              \/ ack_num * MAX_PAYLOAD >= Len(s.chunk_data))],
          ret |-> TRUE]
    ELSE [s |-> s, ret |-> FALSE]

\* A handle_ack that counts whole segments only: the session is complete
\* after as many acknowledgements as MAX_PAYLOAD fits into the chunk
handle_ack_floor(s, ack_num) ==
    IF ack_num = s.next_seq
    THEN [s |-> [s EXCEPT !.next_seq = s.next_seq + 1,
                          !.completed = (s.completed
                              \/ s.next_seq >= Len(s.chunk_data) \div MAX_PAYLOAD)],
          ret |-> TRUE]
    ELSE [s |-> s, ret |-> FALSE]

\* A handle_ack that moves two segments on for one acknowledgement
handle_ack_skip(s, ack_num) ==
    IF ack_num = s.next_seq
    THEN [s |-> [s EXCEPT !.next_seq = s.next_seq + 2,
                          !.completed = (s.completed
                              \/ (s.next_seq + 1) * MAX_PAYLOAD
                                     >= Len(s.chunk_data))],
          ret |-> TRUE]
    ELSE [s |-> s, ret |-> FALSE]

\* UploadSession.handle_ack: the session afterwards, and the value returned
handle_ack(s, ack_num) ==
    IF ack_num = s.next_seq
    THEN [s |-> [s EXCEPT !.next_seq = s.next_seq + 1,
                          !.completed = (s.completed
                              \/ s.next_seq * MAX_PAYLOAD >= Len(s.chunk_data))],
          ret |-> TRUE]
    ELSE [s |-> s, ret |-> FALSE]

----------------------------------------------------------------------------
(* congestion_control.py.  cwnd is a fraction <<numerator, denominator>>.    *)
(* peer.py does not import the module: no session holds a controller.        *)

\* CongestionController.__init__
CongestionController ==
    [cwnd |-> <<1, 1>>, ssthresh |-> 64, dup_ack_count |-> 0]

\* A get_cwnd that rounds the window up
get_cwnd_ceil(cc) == (cc.cwnd[1] + cc.cwnd[2] - 1) \div cc.cwnd[2]

\* CongestionController.get_cwnd: int(self.cwnd)
get_cwnd(cc) == cc.cwnd[1] \div cc.cwnd[2]

\* A loss event that leaves the window as it is
handle_loss_event_open(cc) ==
    LET half == cc.cwnd[1] \div (2 * cc.cwnd[2])
    IN  [cc EXCEPT !.ssthresh = IF half > 2 THEN half ELSE 2]

\* A loss event that halves the threshold without the floor of 2
handle_loss_event_half(cc) ==
    [cc EXCEPT !.ssthresh = cc.cwnd[1] \div (2 * cc.cwnd[2]),
               !.cwnd = <<1, 1>>]

\* CongestionController._handle_loss_event
handle_loss_event(cc) ==
    LET half == cc.cwnd[1] \div (2 * cc.cwnd[2])
    IN  [cc EXCEPT !.ssthresh = IF half > 2 THEN half ELSE 2,
                   !.cwnd = <<1, 1>>]

\* An on_new_ack that doubles the window in slow start
on_new_ack_double(cc) ==
    LET n == cc.cwnd[1]
        d == cc.cwnd[2]
    IN  [cc EXCEPT !.dup_ack_count = 0,
                   !.cwnd = IF n < cc.ssthresh * d
                            THEN <<2 * n, d>>
                            ELSE <<n * n + d * d, n * d>>]

\* An on_new_ack that adds a whole segment in congestion avoidance too
on_new_ack_linear(cc) ==
    [cc EXCEPT !.dup_ack_count = 0,
               !.cwnd = <<cc.cwnd[1] + cc.cwnd[2], cc.cwnd[2]>>]

\* CongestionController.on_new_ack
on_new_ack(cc) ==
    LET n == cc.cwnd[1]
        d == cc.cwnd[2]
    IN  [cc EXCEPT !.dup_ack_count = 0,
                   !.cwnd = IF n < cc.ssthresh * d
                            THEN <<n + d, d>>
                            ELSE <<n * n + d * d, n * d>>]

\* An on_duplicate_ack that signals at every count from 3 on
on_duplicate_ack_more(cc) ==
    LET c == [cc EXCEPT !.dup_ack_count = @ + 1]
    IN  IF c.dup_ack_count >= 3
        THEN [cc |-> handle_loss_event(c), ret |-> TRUE]
        ELSE [cc |-> c, ret |-> FALSE]

\* CongestionController.on_duplicate_ack
on_duplicate_ack(cc) ==
    LET c == [cc EXCEPT !.dup_ack_count = @ + 1]
    IN  IF c.dup_ack_count = 3
        THEN [cc |-> handle_loss_event(c), ret |-> TRUE]
        ELSE [cc |-> c, ret |-> FALSE]

\* An on_timeout that also starts a new count of duplicate ACKs
on_timeout_reset(cc) == [handle_loss_event(cc) EXCEPT !.dup_ack_count = 0]

\* CongestionController.on_timeout
on_timeout(cc) == handle_loss_event(cc)

\* A call made on the controller: the controller before and after, the
\* method, and the value returned (FALSE where the method returns none)
Called(before, op, now, ret) ==
    [before |-> before, op |-> op, now |-> now, ret |-> ret]

----------------------------------------------------------------------------
(* The handlers of process_inbound_udp, one per packet type.  Each is the   *)
(* effect on peer p of a packet from from_addr; last' records the datagrams *)
(* the handler hands to sock.sendto, in order.                              *)

Ran(p, from_addr, ev, seq, ack, data, sent) ==
    [peer |-> p, from |-> from_addr, ev |-> ev, seq |-> seq, ack |-> ack,
     data |-> data, sent |-> sent]

\* A WHOHAS handler that refuses only above the limit
OnWHOHAS_above(p, from_addr, payload) ==
    LET available_hashes ==
            SelectSeq(PayloadHashes(payload),
                      LAMBDA h : h \in DOMAIN has_chunks[p])
        sent ==
            IF Cardinality(DOMAIN usess[p]) > max_conn[p]
            THEN <<Dgram(p, from_addr, build_packet(DENIED, 0, 0, <<>>))>>
            ELSE IF available_hashes # <<>>
            THEN <<Dgram(p, from_addr,
                         build_packet(IHAVE, 0, 0,
                                      HashPayload(available_hashes)))>>
            ELSE <<>>
    IN  /\ last' = Ran(p, from_addr, "WHOHAS", 0, 0, <<>>, sent)
        /\ UNCHANGED peerVars

\* pkt_type == PktType.WHOHAS
OnWHOHAS(p, from_addr, payload) ==
    LET available_hashes ==
            SelectSeq(PayloadHashes(payload),
                      LAMBDA h : h \in DOMAIN has_chunks[p])
        sent ==
            IF Cardinality(DOMAIN usess[p]) >= max_conn[p]
            THEN <<Dgram(p, from_addr, build_packet(DENIED, 0, 0, <<>>))>>
            ELSE IF available_hashes # <<>>
            THEN <<Dgram(p, from_addr,
                         build_packet(IHAVE, 0, 0,
                                      HashPayload(available_hashes)))>>
            ELSE <<>>
    IN  /\ last' = Ran(p, from_addr, "WHOHAS", 0, 0, <<>>, sent)
        /\ UNCHANGED peerVars

\* Whether peer p holds a download session keyed (from_addr, h)
HasDownloadSession(p, from_addr, h) ==
    \E i \in DOMAIN dsess[p] :
        dsess[p][i].peer_addr = from_addr /\ dsess[p][i].chunk_hash = h

\* An IHAVE handler without the break: a GET and a session for every offered
\* digest that is needed and has no session with the sender
OnIHAVE_all(p, from_addr, payload) ==
    LET offered == PayloadHashes(payload)
        wanted == SelectSeq(offered,
                      LAMBDA h : /\ h \in needed[p]
                                 /\ ~HasDownloadSession(p, from_addr, h))
    IN  /\ dsess' = [dsess EXCEPT ![p] =
                        @ \o [i \in DOMAIN wanted |->
                                 DownloadSession(wanted[i], from_addr)]]
        /\ last' = Ran(p, from_addr, "IHAVE", 0, 0, <<>>,
               [i \in DOMAIN wanted |->
                   Dgram(p, from_addr,
                         build_packet(GET, 0, 0, <<fromhex(wanted[i])>>))])
        /\ UNCHANGED <<has_chunks, max_conn, needed, downloaded, usess, files>>

\* pkt_type == PktType.IHAVE
OnIHAVE(p, from_addr, payload) ==
    LET offered == PayloadHashes(payload)
        wanted == {i \in DOMAIN offered :
                      /\ offered[i] \in needed[p]
                      /\ ~HasDownloadSession(p, from_addr, offered[i])}
    IN  IF wanted = {}
        THEN /\ last' = Ran(p, from_addr, "IHAVE", 0, 0, <<>>, <<>>)
             /\ UNCHANGED peerVars
        ELSE LET h == offered[Min(wanted)]
             IN  /\ dsess' = [dsess EXCEPT ![p] =
                                 Append(@, DownloadSession(h, from_addr))]
                 /\ last' = Ran(p, from_addr, "IHAVE", 0, 0, <<>>,
                        <<Dgram(p, from_addr,
                                build_packet(GET, 0, 0, <<fromhex(h)>>))>>)
                 /\ UNCHANGED <<has_chunks, max_conn, needed, downloaded,
                                usess, files>>

\* pkt_type == PktType.DENIED
OnDENIED(p, from_addr) ==
    /\ last' = Ran(p, from_addr, "DENIED", 0, 0, <<>>, <<>>)
    /\ UNCHANGED peerVars

\* A GET handler that answers a request for a chunk it lacks with a refusal
OnGET_refusing(p, from_addr, payload) ==
    IF /\ payload # <<>>
       /\ hex(payload[1]) \in DOMAIN has_chunks[p]
       /\ from_addr \notin DOMAIN usess[p]
    THEN LET chunk_hash == hex(payload[1])
             created == UploadSession(chunk_hash, has_chunks[p][chunk_hash],
                                      from_addr)
             next_data == get_next_data(created)
         IN  /\ usess' = [usess EXCEPT ![p] = Put(@, from_addr, next_data.s)]
             /\ last' = Ran(p, from_addr, "GET", 0, 0, <<>>,
                    IF next_data.some
                    THEN <<Dgram(p, from_addr,
                             build_packet(DATA, next_data.seq, 0, next_data.data))>>
                    ELSE <<>>)
             /\ UNCHANGED <<has_chunks, max_conn, needed, downloaded, dsess,
                            files>>
    ELSE /\ last' = Ran(p, from_addr, "GET", 0, 0, <<>>,
                IF payload # <<>> /\ hex(payload[1]) \notin DOMAIN has_chunks[p]
                THEN <<Dgram(p, from_addr, build_packet(DENIED, 0, 0, <<>>))>>
                ELSE <<>>)
         /\ UNCHANGED peerVars

\* A GET handler that starts over when the peer already has an upload session
OnGET_restart(p, from_addr, payload) ==
    IF /\ payload # <<>>
       /\ hex(payload[1]) \in DOMAIN has_chunks[p]
    THEN LET chunk_hash == hex(payload[1])
             created == UploadSession(chunk_hash, has_chunks[p][chunk_hash],
                                      from_addr)
             next_data == get_next_data(created)
         IN  /\ usess' = [usess EXCEPT ![p] = Put(@, from_addr, next_data.s)]
             /\ last' = Ran(p, from_addr, "GET", 0, 0, <<>>,
                    IF next_data.some
                    THEN <<Dgram(p, from_addr,
                             build_packet(DATA, next_data.seq, 0, next_data.data))>>
                    ELSE <<>>)
             /\ UNCHANGED <<has_chunks, max_conn, needed, downloaded, dsess,
                            files>>
    ELSE /\ last' = Ran(p, from_addr, "GET", 0, 0, <<>>, <<>>)
         /\ UNCHANGED peerVars

\* pkt_type == PktType.GET
OnGET(p, from_addr, payload) ==
    IF /\ payload # <<>>
       /\ hex(payload[1]) \in DOMAIN has_chunks[p]
       /\ from_addr \notin DOMAIN usess[p]
    THEN LET chunk_hash == hex(payload[1])
             created == UploadSession(chunk_hash, has_chunks[p][chunk_hash],
                                      from_addr)
             next_data == get_next_data(created)
         IN  /\ usess' = [usess EXCEPT ![p] = Put(@, from_addr, next_data.s)]
             /\ last' = Ran(p, from_addr, "GET", 0, 0, <<>>,
                    IF next_data.some
                    THEN <<Dgram(p, from_addr,
                             build_packet(DATA, next_data.seq, 0, next_data.data))>>
                    ELSE <<>>)
             /\ UNCHANGED <<has_chunks, max_conn, needed, downloaded, dsess,
                            files>>
    ELSE /\ last' = Ran(p, from_addr, "GET", 0, 0, <<>>, <<>>)
         /\ UNCHANGED peerVars

\* A search that falls back on the oldest session of any peer when none names
\* from_addr
FindDownloadSession_any(p, from_addr) ==
    LET hits == {i \in DOMAIN dsess[p] : dsess[p][i].peer_addr = from_addr}
    IN  IF hits # {} THEN Min(hits) ELSE IF dsess[p] = <<>> THEN 0 ELSE 1

\* The first session of g_download_sessions, in insertion order, whose key
\* names from_addr (0: none)
FindDownloadSession(p, from_addr) ==
    LET hits == {i \in DOMAIN dsess[p] : dsess[p][i].peer_addr = from_addr}
    IN  IF hits = {} THEN 0 ELSE Min(hits)

\* A DATA handler that persists the output whenever a chunk completes
OnDATA_eager(p, from_addr, seq, payload) ==
    LET k == FindDownloadSession(p, from_addr)
    IN  IF k = 0
        THEN /\ last' = Ran(p, from_addr, "DATA", seq, 0, payload, <<>>)
             /\ UNCHANGED peerVars
        ELSE
        LET r == add_data(dsess[p][k], seq, payload)
            session == r.s
            chunk_hash == session.chunk_hash
            got == Put(downloaded[p], chunk_hash, session.data)
            left == needed[p] \ {chunk_hash}
        IN  /\ last' = Ran(p, from_addr, "DATA", seq, 0, payload,
                   IF r.ret
                   THEN <<Dgram(p, from_addr, build_packet(ACK, 0, seq, <<>>))>>
                   ELSE <<>>)
            /\ IF r.ret /\ session.completed
               THEN /\ downloaded' = [downloaded EXCEPT ![p] = got]
                    /\ needed' = [needed EXCEPT ![p] = left]
                    /\ dsess' = [dsess EXCEPT ![p] = RemoveAt(@, k)]
                    /\ IF TRUE
                       THEN /\ files' = [files EXCEPT ![p] = <<got>>]
                            /\ has_chunks' = [has_chunks EXCEPT ![p] =
                                                 Update(@, got)]
                       ELSE UNCHANGED <<files, has_chunks>>
               ELSE /\ dsess' = [dsess EXCEPT ![p][k] = session]
                    /\ UNCHANGED <<downloaded, needed, files, has_chunks>>
            /\ UNCHANGED <<max_conn, usess>>

\* A DATA handler that leaves a completed chunk in the needed set
OnDATA_undiscarded(p, from_addr, seq, payload) ==
    LET k == FindDownloadSession(p, from_addr)
    IN  IF k = 0
        THEN /\ last' = Ran(p, from_addr, "DATA", seq, 0, payload, <<>>)
             /\ UNCHANGED peerVars
        ELSE
        LET r == add_data(dsess[p][k], seq, payload)
            session == r.s
            chunk_hash == session.chunk_hash
            got == Put(downloaded[p], chunk_hash, session.data)
            left == needed[p]
        IN  /\ last' = Ran(p, from_addr, "DATA", seq, 0, payload,
                   IF r.ret
                   THEN <<Dgram(p, from_addr, build_packet(ACK, 0, seq, <<>>))>>
                   ELSE <<>>)
            /\ IF r.ret /\ session.completed
               THEN /\ downloaded' = [downloaded EXCEPT ![p] = got]
                    /\ needed' = [needed EXCEPT ![p] = left]
                    /\ dsess' = [dsess EXCEPT ![p] = RemoveAt(@, k)]
                    /\ IF left = {}
                       THEN /\ files' = [files EXCEPT ![p] = <<got>>]
                            /\ has_chunks' = [has_chunks EXCEPT ![p] =
                                                 Update(@, got)]
                       ELSE UNCHANGED <<files, has_chunks>>
               ELSE /\ dsess' = [dsess EXCEPT ![p][k] = session]
                    /\ UNCHANGED <<downloaded, needed, files, has_chunks>>
            /\ UNCHANGED <<max_conn, usess>>

\* pkt_type == PktType.DATA
OnDATA(p, from_addr, seq, payload) ==
    LET k == FindDownloadSession(p, from_addr)
    IN  IF k = 0
        THEN /\ last' = Ran(p, from_addr, "DATA", seq, 0, payload, <<>>)
             /\ UNCHANGED peerVars
        ELSE
        LET r == add_data(dsess[p][k], seq, payload)
            session == r.s
            chunk_hash == session.chunk_hash
            got == Put(downloaded[p], chunk_hash, session.data)
            left == needed[p] \ {chunk_hash}
        IN  /\ last' = Ran(p, from_addr, "DATA", seq, 0, payload,
                   IF r.ret
                   THEN <<Dgram(p, from_addr, build_packet(ACK, 0, seq, <<>>))>>
                   ELSE <<>>)
            /\ IF r.ret /\ session.completed
               THEN /\ downloaded' = [downloaded EXCEPT ![p] = got]
                    /\ needed' = [needed EXCEPT ![p] = left]
                    /\ dsess' = [dsess EXCEPT ![p] = RemoveAt(@, k)]
                    /\ IF left = {}
                       THEN /\ files' = [files EXCEPT ![p] = <<got>>]
                            /\ has_chunks' = [has_chunks EXCEPT ![p] =
                                                 Update(@, got)]
                       ELSE UNCHANGED <<files, has_chunks>>
               ELSE /\ dsess' = [dsess EXCEPT ![p][k] = session]
                    /\ UNCHANGED <<downloaded, needed, files, has_chunks>>
            /\ UNCHANGED <<max_conn, usess>>

\* pkt_type == PktType.ACK
OnACK(p, from_addr, ack) ==
    IF from_addr \notin DOMAIN usess[p]
    THEN /\ last' = Ran(p, from_addr, "ACK", 0, ack, <<>>, <<>>)
         /\ UNCHANGED peerVars
    ELSE
    LET r == handle_ack(usess[p][from_addr], ack)
        next_data == get_next_data(r.s)
    IN  /\ IF ~r.ret
           THEN /\ usess' = [usess EXCEPT ![p][from_addr] = r.s]
                /\ last' = Ran(p, from_addr, "ACK", 0, ack, <<>>, <<>>)
           ELSE IF ~r.s.completed
           THEN /\ usess' = [usess EXCEPT ![p][from_addr] = next_data.s]
                /\ last' = Ran(p, from_addr, "ACK", 0, ack, <<>>,
                       IF next_data.some
                       THEN <<Dgram(p, from_addr,
                                build_packet(DATA, next_data.seq, 0,
                                             next_data.data))>>
                       ELSE <<>>)
           ELSE /\ usess' = [usess EXCEPT ![p] = Drop(@, from_addr)]
                /\ last' = Ran(p, from_addr, "ACK", 0, ack, <<>>, <<>>)
        /\ UNCHANGED <<has_chunks, max_conn, needed, downloaded, dsess, files>>

----------------------------------------------------------------------------
(* process_user_input and process_download *)

\* The entries of g_context.peers other than p itself, in directory order
OtherPeers(p) ==
    LET S == Peers \ {p}
    IN  CHOOSE s \in [1..Cardinality(S) -> S] :
            \A i, j \in 1..Cardinality(S) : i < j => s[i] < s[j]

\* A process_download that keeps what an earlier command has downloaded
process_download_keep(p, chunk_hashes) ==
    /\ needed' = [needed EXCEPT ![p] = Range(chunk_hashes)]
    /\ downloaded' = downloaded
    /\ last' = Ran(p, p, "DOWNLOAD", 0, 0, <<>>,
           IF chunk_hashes = <<>> THEN <<>>
           ELSE [i \in DOMAIN OtherPeers(p) |->
                    Dgram(p, OtherPeers(p)[i],
                          build_packet(WHOHAS, 0, 0,
                                       HashPayload(chunk_hashes)))])
    /\ UNCHANGED <<has_chunks, max_conn, dsess, usess, files>>

\* "DOWNLOAD <chunk-file> <output-file>" typed at peer p; chunk_hashes are the
\* digests the chunk file lists, in order
process_download(p, chunk_hashes) ==
    /\ needed' = [needed EXCEPT ![p] = Range(chunk_hashes)]
    /\ downloaded' = [downloaded EXCEPT ![p] = <<>>]
    /\ last' = Ran(p, p, "DOWNLOAD", 0, 0, <<>>,
           IF chunk_hashes = <<>> THEN <<>>
           ELSE [i \in DOMAIN OtherPeers(p) |->
                    Dgram(p, OtherPeers(p)[i],
                          build_packet(WHOHAS, 0, 0,
                                       HashPayload(chunk_hashes)))])
    /\ UNCHANGED <<has_chunks, max_conn, dsess, usess, files>>

----------------------------------------------------------------------------
(* process_inbound_udp: parse the header, route on the packet type *)

\* struct.unpack(HEADER_FMT, data[:HEADER_LEN]) raises struct.error unless it
\* is given exactly HEADER_LEN bytes
unpack_raises(pkt) == Len(pkt.hdr) < HEADER_LEN

\* The exception leaves process_inbound_udp before any branch is taken
OnError(p, from_addr) ==
    /\ last' = Ran(p, from_addr, "struct.error", 0, 0, <<>>, <<>>)
    /\ UNCHANGED peerVars

\* No branch of the if/elif chain matches pkt_type
OnOther(p, from_addr) ==
    /\ last' = Ran(p, from_addr, "other", 0, 0, <<>>, <<>>)
    /\ UNCHANGED peerVars

process_inbound_udp(p, m) ==
    IF unpack_raises(m.pkt) THEN OnError(p, m.src)
    ELSE
    LET h == parse_header(m.pkt)
        pkt_type == h[1]
        seq == h[4]
        ack == h[5]
        payload == m.pkt.payload
    IN  CASE pkt_type = WHOHAS -> OnWHOHAS(p, m.src, payload)
          [] pkt_type = IHAVE -> OnIHAVE(p, m.src, payload)
          [] pkt_type = DENIED -> OnDENIED(p, m.src)
          [] pkt_type = GET -> OnGET(p, m.src, payload)
          [] pkt_type = DATA -> OnDATA(p, m.src, seq, payload)
          [] pkt_type = ACK -> OnACK(p, m.src, ack)
          [] OTHER -> OnOther(p, m.src)

\* peer_run catches KeyboardInterrupt only: an exception raised by a handler
\* ends the event loop and the process of peer p
Survivors(p) ==
    IF last'.ev = "struct.error" THEN crashed \cup {p} ELSE crashed

\* The sequence numbers of the DATA packets among the datagrams sent to q
DataSeqsTo(sent, q) ==
    {parse_header(sent[i].pkt)[4] :
        i \in {j \in DOMAIN sent :
                  sent[j].dst = q /\ parse_header(sent[j].pkt)[1] = DATA}}

\* Observer, not program state.  For the sessions of peer p with q, after p
\* has handled m.  Of the upload session: dup, the number of ACKs below the
\* oldest unacknowledged sequence number received in a row (4: more than
\* three); unacked, the sequence numbers sent by the session and not
\* acknowledged yet; resent, those it has sent more than once.  Of the
\* download session for each chunk: taken, the segments <<seq, payload>> the
\* session has acknowledged, in order
Unobserved == [dup |-> 0, unacked |-> {}, resent |-> {}, taken |-> <<>>]

ObservedAfter(p, m) ==
    IF unpack_raises(m.pkt) THEN obs[p][m.src]
    ELSE
    LET h == parse_header(m.pkt)
        q == m.src
        was == IF q \in DOMAIN usess[p] THEN obs[p][q] ELSE Unobserved
        dup == IF h[1] # ACK \/ q \notin DOMAIN usess[p] THEN was.dup
               ELSE IF h[5] = usess[p][q].next_seq THEN 0
               ELSE IF h[5] < usess[p][q].next_seq
               THEN (IF was.dup < 4 THEN was.dup + 1 ELSE 4)
               ELSE was.dup
        k == FindDownloadSession(p, q)
        chunks == {dsess'[p][i].chunk_hash :
                      i \in {j \in DOMAIN dsess'[p] : dsess'[p][j].peer_addr = q}}
        taken == [c \in chunks |->
                    IF ~HasDownloadSession(p, q, c) THEN <<>>
                    ELSE IF /\ h[1] = DATA /\ last'.sent # <<>>
                            /\ k # 0 /\ dsess[p][k].chunk_hash = c
                    THEN Append(obs[p][q].taken[c], <<h[4], m.pkt.payload>>)
                    ELSE obs[p][q].taken[c]]
    IN  [dup |-> IF q \in DOMAIN usess'[p] THEN dup ELSE 0,
         unacked |-> IF q \in DOMAIN usess'[p]
                     THEN {n \in was.unacked \cup DataSeqsTo(last'.sent, q) :
                              n >= usess'[p][q].next_seq}
                     ELSE {},
         resent |-> IF q \in DOMAIN usess'[p]
                    THEN was.resent \cup
                         {n \in DataSeqsTo(last'.sent, q) :
                             /\ q \in DOMAIN usess[p]
                             /\ \/ n < usess[p][q].next_seq
                                \/ n \in was.unacked}
                    ELSE {},
         taken |-> taken]

----------------------------------------------------------------------------
(* The steps of the system: peer_run of each peer, and the channel *)

\* The peers that receive operator commands, and the chunk lists they are given
Requesters == {1}

ChunkLists == {<<>>, <<"A">>, <<"B">>, <<"A", "B">>, <<"B", "A">>}

\* process_user_input: a DOWNLOAD command typed at peer p
Command(p, chunk_hashes) ==
    /\ p \notin crashed
    /\ process_download(p, chunk_hashes)
    /\ net' = net (+) SeqToBag(last'.sent)
    /\ env' = [env EXCEPT !.downloads = @ + 1, !.listed = chunk_hashes]
    /\ UNCHANGED <<crashed, obs, ctl>>

\* Any number of commands, at most MaxDownloads of them
Download(p, chunk_hashes) ==
    /\ env.downloads < MaxDownloads
    /\ Command(p, chunk_hashes)

\* The only command of a run
DownloadOnce(p, chunk_hashes) ==
    /\ env.downloads = 0
    /\ Command(p, chunk_hashes)

\* sock.recvfrom by peer p returns datagram m, of type t; p handles it, and
\* what it sends enters the channel
Delivered(p, m, t) ==
    /\ p \notin crashed
    /\ m.dst = p
    /\ parse_header(m.pkt)[1] = t
    /\ process_inbound_udp(p, m)
    /\ obs' = [obs EXCEPT ![p][m.src] = ObservedAfter(p, m)]
    /\ net' = (net (-) SetToBag({m})) (+) SeqToBag(last'.sent)
    /\ crashed' = Survivors(p)
    /\ UNCHANGED <<env, ctl>>

RecvWHOHAS(p) == \E m \in BagToSet(net) : Delivered(p, m, WHOHAS)

RecvIHAVE(p) == \E m \in BagToSet(net) : Delivered(p, m, IHAVE)

RecvDENIED(p) == \E m \in BagToSet(net) : Delivered(p, m, DENIED)

RecvGET(p) == \E m \in BagToSet(net) : Delivered(p, m, GET)

RecvDATA(p) == \E m \in BagToSet(net) : Delivered(p, m, DATA)

RecvACK(p) == \E m \in BagToSet(net) : Delivered(p, m, ACK)

\* select.select times out: no packet and no command during this period
Idle(p) ==
    /\ p \notin crashed
    /\ UNCHANGED vars

\* The channel loses a DATA or an ACK datagram
Lose ==
    \E m \in BagToSet(net) :
        /\ env.lost < MaxLoss
        /\ parse_header(m.pkt)[1] \in {DATA, ACK}
        /\ net' = net (-) SetToBag({m})
        /\ env' = [env EXCEPT !.lost = @ + 1]
        /\ UNCHANGED <<peerVars, crashed, last, obs, ctl>>

\* The process of peer p is terminated (one peer at most, never a requester)
Crash(p) ==
    /\ crashed = {}
    /\ p \notin Requesters
    /\ crashed' = {p}
    /\ UNCHANGED <<peerVars, net, env, last, obs, ctl>>

\* A datagram for a terminated peer finds no socket
DeadLetter ==
    \E m \in BagToSet(net) :
        /\ m.dst \in crashed
        /\ net' = net (-) SetToBag({m})
        /\ UNCHANGED <<peerVars, crashed, env, last, obs, ctl>>

\* One datagram handled by some peer
Handle ==
    \E p \in Peers :
        \/ RecvWHOHAS(p) \/ RecvIHAVE(p) \/ RecvDENIED(p)
        \/ RecvGET(p) \/ RecvDATA(p) \/ RecvACK(p)

----------------------------------------------------------------------------
(* Initial states and specifications of the whole system *)

Quiet ==
    /\ needed = [p \in Peers |-> {}]
    /\ downloaded = [p \in Peers |-> <<>>]
    /\ dsess = [p \in Peers |-> <<>>]
    /\ usess = [p \in Peers |-> <<>>]
    /\ files = [p \in Peers |-> <<>>]
    /\ net = EmptyBag
    /\ crashed = {}
    /\ env = [downloads |-> 0, lost |-> 0, listed |-> <<>>]
    /\ obs = [p \in Peers |-> [q \in Peers |-> Unobserved]]
    /\ ctl = Called(CongestionController, "__init__", CongestionController,
                    FALSE)
    /\ last = Ran(0, 0, "init", 0, 0, <<>>, <<>>)

\* Peer 1 holds nothing, peer 2 holds both chunks, peer 3 holds chunk A or
\* nothing; peer 3 may be started with -m 0
Init ==
    /\ \E third \in {{}, {"A"}} :
          has_chunks = [p \in Peers |->
              [h \in (CASE p = 1 -> {} [] p = 2 -> Hashes [] OTHER -> third)
                  |-> ChunkData(h)]]
    /\ \E m3 \in {0, 1} : max_conn = [p \in Peers |-> IF p = 3 THEN m3 ELSE 1]
    /\ Quiet

\* Any number of commands and a channel that delays and reorders at will.  A
\* datagram the channel loses is one that stays in flight for ever, so this
\* specification reaches every state of the peers that a lossy channel allows
Next ==
    \/ \E p \in Requesters, l \in ChunkLists : Download(p, l)
    \/ \E p \in Peers : RecvWHOHAS(p)
    \/ \E p \in Peers : RecvIHAVE(p)
    \/ \E p \in Peers : RecvDENIED(p)
    \/ \E p \in Peers : RecvGET(p)
    \/ \E p \in Peers : RecvDATA(p)
    \/ \E p \in Peers : RecvACK(p)
    \/ \E p \in Peers : Idle(p)

Spec == Init /\ [][Next]_vars

\* One command and a channel that delays and reorders but loses nothing.  The
\* event loop handles every datagram that has arrived: weak fairness of Handle
LiveNext ==
    \/ \E p \in Requesters, l \in ChunkLists : DownloadOnce(p, l)
    \/ \E p \in Peers : RecvWHOHAS(p)
    \/ \E p \in Peers : RecvIHAVE(p)
    \/ \E p \in Peers : RecvDENIED(p)
    \/ \E p \in Peers : RecvGET(p)
    \/ \E p \in Peers : RecvDATA(p)
    \/ \E p \in Peers : RecvACK(p)
    \/ \E p \in Peers : Idle(p)

LiveSpec == Init /\ [][LiveNext]_vars /\ WF_vars(Handle)

\* One command and a channel that loses finitely many DATA or ACK datagrams
LossyNext ==
    \/ \E p \in Requesters, l \in ChunkLists : DownloadOnce(p, l)
    \/ \E p \in Peers : RecvWHOHAS(p)
    \/ \E p \in Peers : RecvIHAVE(p)
    \/ \E p \in Peers : RecvDENIED(p)
    \/ \E p \in Peers : RecvGET(p)
    \/ \E p \in Peers : RecvDATA(p)
    \/ \E p \in Peers : RecvACK(p)
    \/ \E p \in Peers : Idle(p)
    \/ Lose

LossySpec == Init /\ [][LossyNext]_vars /\ WF_vars(Handle)

\* One command, a channel that loses nothing, and one peer that may be
\* terminated
FailoverNext ==
    \/ \E p \in Requesters, l \in ChunkLists : DownloadOnce(p, l)
    \/ \E p \in Peers : RecvWHOHAS(p)
    \/ \E p \in Peers : RecvIHAVE(p)
    \/ \E p \in Peers : RecvDENIED(p)
    \/ \E p \in Peers : RecvGET(p)
    \/ \E p \in Peers : RecvDATA(p)
    \/ \E p \in Peers : RecvACK(p)
    \/ \E p \in Peers : Idle(p)
    \/ \E p \in Peers : Crash(p)
    \/ DeadLetter

FailoverSpec ==
    Init /\ [][FailoverNext]_vars /\ WF_vars(Handle) /\ WF_vars(DeadLetter)

----------------------------------------------------------------------------
(* One node under every datagram a socket can receive.  The node is peer 2,  *)
(* which holds chunk A; any datagram of the forms below may arrive from      *)
(* either other peer at any time, in any order and any number of times, and  *)
(* what the node sends leaves the model (last records it).                   *)

Node == Min(Peers \ Requesters)

\* chunk_data[(k - 1) * MAX_PAYLOAD : k * MAX_PAYLOAD] of the chunk h
Segment(h, k) ==
    Slice(ChunkData(h), (k - 1) * MAX_PAYLOAD, k * MAX_PAYLOAD)

Inbound(t) ==
    LET pkts ==
          CASE t \in {WHOHAS, IHAVE} ->
                 {build_packet(t, 0, 0, HashPayload(l)) :
                     l \in ChunkLists \ {<<>>}}
            [] t = GET ->
                 {build_packet(GET, 0, 0, <<fromhex(h)>>) : h \in Hashes}
            [] t = DATA ->
                 {build_packet(DATA, k, 0, Segment("B", k)) :
                     k \in 1..SegsPerChunk}
            [] t = ACK ->
                 {build_packet(ACK, 0, k, <<>>) : k \in 0..(SegsPerChunk + 1)}
            [] t = DENIED -> {build_packet(DENIED, 0, 0, <<>>)}
    IN  {Dgram(q, Node, pkt) : q \in Peers \ {Node}, pkt \in pkts}

Arrived(m) ==
    /\ process_inbound_udp(Node, m)
    /\ obs' = [obs EXCEPT ![Node][m.src] = ObservedAfter(Node, m)]
    /\ crashed' = Survivors(Node)
    /\ UNCHANGED <<net, env, ctl>>

NodeWHOHAS ==
    /\ Node \notin crashed
    /\ \E m \in Inbound(WHOHAS) : Arrived(m)

NodeIHAVE ==
    /\ Node \notin crashed
    /\ \E m \in Inbound(IHAVE) : Arrived(m)

NodeDENIED ==
    /\ Node \notin crashed
    /\ \E m \in Inbound(DENIED) : Arrived(m)

NodeGET ==
    /\ Node \notin crashed
    /\ \E m \in Inbound(GET) : Arrived(m)

NodeDATA ==
    /\ Node \notin crashed
    /\ \E m \in Inbound(DATA) : Arrived(m)

NodeACK ==
    /\ Node \notin crashed
    /\ \E m \in Inbound(ACK) : Arrived(m)

\* The commands typed at the node: the chunk it lacks, or an empty list
NodeLists == {<<>>, <<"B">>}

NodeDownload ==
    /\ Node \notin crashed
    /\ \E l \in NodeLists :
        /\ process_download(Node, l)
        /\ env' = [env EXCEPT !.listed = l]
        /\ UNCHANGED <<net, crashed, obs, ctl>>

NodeInit ==
    /\ has_chunks = [p \in Peers |->
          [h \in (IF p = Node THEN {"A"} ELSE {}) |-> ChunkData(h)]]
    /\ max_conn = [p \in Peers |-> 1]
    /\ Quiet

\* The node as a sender: discovery, requests and acknowledgments arrive
SenderNext ==
    \/ NodeWHOHAS
    \/ NodeGET
    \/ NodeACK
    \/ Idle(Node)

SenderSpec == NodeInit /\ [][SenderNext]_vars

\* The node as a receiver: commands, offers, refusals and segments arrive
ReceiverNext ==
    \/ NodeDownload
    \/ NodeIHAVE
    \/ NodeDENIED
    \/ NodeDATA
    \/ Idle(Node)

ReceiverSpec == NodeInit /\ [][ReceiverNext]_vars

----------------------------------------------------------------------------
(* Properties of the sender and of the receiver of one transfer.             *)

\* The sequence numbers of the DATA packets of what the last handler sent
SentDataSeqs ==
    [i \in DOMAIN last.sent |-> parse_header(last.sent[i].pkt)[4]]

\* The last handler sent DATA packets only
SentOnlyData ==
    \A i \in DOMAIN last.sent : parse_header(last.sent[i].pkt)[1] = DATA

\* The upload sessions of the node
Uploads == usess[Node]

\* C6: window admission.  For every upload session the number of segments
\* sent and not yet acknowledged never exceeds the floor of the congestion
\* window, and a handler that runs while that many are outstanding and the
\* window has not moved sends no new segment.  The session's oldest
\* unacknowledged sequence number is next_seq, and its window is that of a
\* controller as constructed: get_cwnd(CongestionController) = 1.
WindowFull(q) ==
    /\ q \in DOMAIN Uploads
    /\ Cardinality(obs[Node][q].unacked) = get_cwnd(CongestionController)

WindowAdmission ==
    \A q \in DOMAIN Uploads :
        /\ Cardinality(obs[Node][q].unacked) <= get_cwnd(CongestionController)
        /\ \A k \in obs[Node][q].unacked :
              /\ k >= Uploads[q].next_seq
              /\ k < Uploads[q].next_seq + get_cwnd(CongestionController)

NothingNewWhenFull ==
    \A q \in Peers :
        (/\ WindowFull(q)
         /\ q \in DOMAIN Uploads'
         /\ Uploads'[q].next_seq = Uploads[q].next_seq)
        => DataSeqsTo(last'.sent, q) \subseteq obs[Node][q].unacked

Refill(base, cc) ==
    [i \in 1..Min({get_cwnd(cc), SegsPerChunk - base + 1}) |-> base + i - 1]

SlidingRefill ==
    \A q \in Peers :
        (/\ q \in DOMAIN Uploads
         /\ Uploads[q].next_seq = 1
         /\ obs[Node][q].unacked = {1}
         /\ last'.ev = "ACK" /\ last'.from = q /\ last'.ack = 1)
        => /\ q \in DOMAIN Uploads'
           /\ Uploads'[q].next_seq = 2
           /\ SentOnlyData'
           /\ SentDataSeqs' = Refill(2, on_new_ack(CongestionController))

C7_SlidingRefill == [][SlidingRefill]_vars

\* C8: fast retransmit.  Of three acknowledgements in a row below the oldest
\* outstanding sequence number of a session, the first two cause no
\* transmission and the third causes exactly one: the segment at the oldest
\* outstanding sequence number.
C8_FastRetransmit ==
    \A q \in DOMAIN Uploads :
        (/\ last.ev = "ACK" /\ last.from = q
         /\ last.ack < Uploads[q].next_seq
         /\ obs[Node][q].dup \in 1..3)
        => IF obs[Node][q].dup < 3
           THEN last.sent = <<>>
           ELSE /\ SentOnlyData
                /\ SentDataSeqs = <<Uploads[q].next_seq>>
                /\ last.sent[1].dst = q

\* The download sessions of the node
Downloads == dsess[Node]

\* C10: receiver in-order rule.  A DATA segment whose sequence number differs
\* from the expected_seq of the download session it belongs to is dropped:
\* the session does not change and no ACK is sent.  A segment whose sequence
\* number equals expected_seq is appended, expected_seq grows by exactly 1
\* and exactly one ACK, carrying that sequence number, is sent (the session
\* is then removed if the chunk is complete).  No other step changes a
\* session that exists.
InOrderRule ==
    LET q == last'.from
        seq == last'.seq
        k == FindDownloadSession(Node, q)
    IN  IF last'.ev = "DATA" /\ k # 0
        THEN IF seq # Downloads[k].expected_seq
             THEN /\ Downloads' = Downloads
                  /\ last'.sent = <<>>
             ELSE /\ last'.sent =
                        <<Dgram(Node, q, build_packet(ACK, 0, seq, <<>>))>>
                  /\ \/ Downloads' = RemoveAt(Downloads, k)
                     \/ /\ Len(Downloads') = Len(Downloads)
                        /\ \A i \in DOMAIN Downloads \ {k} :
                              Downloads'[i] = Downloads[i]
                        /\ Downloads'[k].expected_seq =
                              Downloads[k].expected_seq + 1
                        /\ Downloads'[k].data = Downloads[k].data \o last'.data
                        /\ Downloads'[k].chunk_hash = Downloads[k].chunk_hash
                        /\ Downloads'[k].peer_addr = Downloads[k].peer_addr
        ELSE /\ Len(Downloads') >= Len(Downloads)
             /\ \A i \in DOMAIN Downloads : Downloads'[i] = Downloads[i]

C10_ReceiverInOrder == [][InOrderRule]_vars

\* C10 witness: a session that has accepted segment 1 has just dropped a
\* segment beyond the one it expects
C10_Witness ==
    LET k == FindDownloadSession(Node, last.from)
    IN  /\ last.ev = "DATA"
        /\ k # 0
        /\ Downloads[k].expected_seq = 2
        /\ Len(Downloads[k].data) = MAX_PAYLOAD
        /\ last.seq > Downloads[k].expected_seq
        /\ last.sent = <<>>

----------------------------------------------------------------------------
(* Properties of a whole download.  Peer 1 is the requester.                 *)

\* The requester has persisted an output mapping that contains chunk h, and
\* needs nothing more
Retrieved(h) ==
    /\ needed[1] = {}
    /\ files[1] # <<>>
    /\ h \in DOMAIN files[1][1]

\* Some peer other than the requester and q holds chunk h and accepts uploads
Offers(h, q) ==
    \E r \in Peers \ {1, q} : h \in DOMAIN has_chunks[r] /\ max_conn[r] >= 1

\* C1: end-to-end completion.  On a channel that loses no datagram, after a
\* DOWNLOAD command that lists one chunk held by another peer, the requester
\* eventually needs nothing more and has persisted an output mapping that
\* contains the chunk.
C1_Completion ==
    \A h \in Hashes :
        (env.listed = <<h>> /\ Offers(h, 1)) ~> Retrieved(h)

\* C1 witness: peer 3 holds nothing, so the run is one of two peers, and the
\* requester has persisted chunk B, whole
C1_Witness ==
    /\ env.listed = <<"B">>
    /\ DOMAIN has_chunks[3] = {}
    /\ Retrieved("B")
    /\ files[1][1]["B"] = ChunkData("B")

\* Every chunk stored or being assembled by a peer is made of the bytes of
\* the chunk of the same digest, in order
Genuine(h, data) ==
    /\ Len(data) <= CHUNK_DATA_SIZE
    /\ \A i \in DOMAIN data : data[i] = ChunkData(h)[i]

\* C2: content integrity.  Every entry of a downloaded map, and of a persisted
\* output, under digest h is exactly the chunk of digest h, whole and in
\* order; and the data a download session has assembled are bytes of the
\* chunk of its own digest: a DATA segment is never appended to the session
\* of another chunk.
C2_ContentIntegrity ==
    \A p \in Peers :
        /\ \A h \in DOMAIN downloaded[p] : downloaded[p][h] = ChunkData(h)
        /\ \A i \in DOMAIN files[p] :
              \A h \in DOMAIN files[p][i] : files[p][i][h] = ChunkData(h)
        /\ \A i \in DOMAIN dsess[p] :
              Genuine(dsess[p][i].chunk_hash, dsess[p][i].data)

\* C3: loss tolerance.  When the channel loses finitely many DATA or ACK
\* datagrams and every peer stays alive, the download of a chunk that another
\* peer holds still completes.
C3_LossTolerance ==
    \A h \in Hashes :
        (env.listed = <<h>> /\ Offers(h, 1) /\ crashed = {}) ~> Retrieved(h)

\* The download session of the requester with peer q for chunk h has taken
\* some segments and still lacks more than the last one
MidTransfer(q, h) ==
    \E i \in DOMAIN dsess[1] :
        /\ dsess[1][i].peer_addr = q
        /\ dsess[1][i].chunk_hash = h
        /\ dsess[1][i].expected_seq > 1
        /\ dsess[1][i].expected_seq < SegsPerChunk

\* C4: failover.  On a channel that loses no datagram, when the peer that is
\* transferring a needed chunk is terminated in the middle of the transfer
\* while another peer, alive, offers that chunk, the requester eventually
\* holds the whole chunk (without which its download cannot complete).
C4_Failover ==
    \A q \in Peers \ {1} : \A h \in Hashes :
        (/\ crashed = {q}
         /\ h \in needed[1]
         /\ MidTransfer(q, h)
         /\ Offers(h, q))
        ~> (/\ h \in DOMAIN downloaded[1]
            /\ downloaded[1][h] = ChunkData(h))

\* C5: several chunks from one source.  On a channel that loses no datagram,
\* after a DOWNLOAD command that lists both chunks while a single peer holds
\* them, every listed chunk is eventually retrieved and the download
\* completes.
C5_MultiChunk ==
    (/\ Len(env.listed) = 2
     /\ DOMAIN has_chunks[3] = {}
     /\ Hashes \subseteq DOMAIN has_chunks[2])
    ~> (Retrieved("A") /\ Retrieved("B"))

\* The upload session of p with q waits for an acknowledgement that cannot
\* come: neither its outstanding segment nor the acknowledgement of it is in
\* flight
Expired(p, q) ==
    /\ q \in DOMAIN usess[p]
    /\ ~usess[p][q].completed
    /\ \A m \in BagToSet(net) :
          LET h == parse_header(m.pkt)
          IN  /\ ~(m.src = p /\ m.dst = q /\ h[1] = DATA
                   /\ h[4] = usess[p][q].next_seq)
              /\ ~(m.src = q /\ m.dst = p /\ h[1] = ACK
                   /\ h[5] = usess[p][q].next_seq)

\* C9: timeout retransmit.  When the oldest outstanding segment of an upload
\* session stays unacknowledged, the periodic timer eventually retransmits
\* that segment: it is in flight again, and the sequence number the session
\* waits for has not advanced meanwhile.
C9_TimeoutRetransmit ==
    \A p \in Peers : \A q \in Peers : \A k \in 1..SegsPerChunk :
        (Expired(p, q) /\ usess[p][q].next_seq = k)
        ~> (/\ q \in DOMAIN usess[p]
            /\ usess[p][q].next_seq = k
            /\ ~Expired(p, q))

----------------------------------------------------------------------------
(* The data a download session has assembled *)

\* The payloads of the segments of a log, concatenated in order
RECURSIVE Payloads(_)
Payloads(log) ==
    IF log = <<>> THEN <<>>
    ELSE Payloads(SubSeq(log, 1, Len(log) - 1)) \o log[Len(log)][2]

\* C11: receiver contiguity.  The data of every download session is the
\* concatenation of the payloads it accepted for the sequence numbers
\* 1, 2, ..., expected_seq - 1, in that order, each exactly once.
C11_Contiguity ==
    \A p \in Peers : \A i \in DOMAIN dsess[p] :
        LET s == dsess[p][i]
            log == obs[p][s.peer_addr].taken[s.chunk_hash]
        IN  /\ Len(log) = s.expected_seq - 1
            /\ \A j \in DOMAIN log : log[j][1] = j
            /\ s.data = Payloads(log)

\* C11 witness: a session that has accepted segments 1 and 2 and, since then,
\* refused a segment
C11_Witness ==
    \E i \in DOMAIN Downloads :
        /\ Downloads[i].expected_seq = 3
        /\ Len(Downloads[i].data) = 2 * MAX_PAYLOAD
        /\ last.ev = "DATA"
        /\ last.from = Downloads[i].peer_addr
        /\ last.sent = <<>>

----------------------------------------------------------------------------
(* A CongestionController on its own: any sequence of calls of its methods, *)
(* from its construction.  The window is kept below MaxWindow, its          *)
(* denominator below MaxDenominator, the count of duplicates below          *)
(* MaxDupAcks.                                                               *)

\* cc.on_new_ack()
CallNewAck ==
    /\ get_cwnd(ctl.now) < MaxWindow
    /\ ctl.now.cwnd[2] <= MaxDenominator
    /\ ctl' = Called(ctl.now, "on_new_ack", on_new_ack(ctl.now), FALSE)
    /\ UNCHANGED <<peerVars, net, crashed, env, obs, last>>

\* cc.on_duplicate_ack()
CallDuplicateAck ==
    /\ ctl.now.dup_ack_count < MaxDupAcks
    /\ ctl' = Called(ctl.now, "on_duplicate_ack",
                     on_duplicate_ack(ctl.now).cc, on_duplicate_ack(ctl.now).ret)
    /\ UNCHANGED <<peerVars, net, crashed, env, obs, last>>

\* cc.on_timeout()
CallTimeout ==
    /\ ctl' = Called(ctl.now, "on_timeout", on_timeout(ctl.now), FALSE)
    /\ UNCHANGED <<peerVars, net, crashed, env, obs, last>>

ControllerNext == CallNewAck \/ CallDuplicateAck \/ CallTimeout

ControllerSpec == NodeInit /\ [][ControllerNext]_vars

\* The window of the controller before the call and after it, as fractions
WasN == ctl.before.cwnd[1]
WasD == ctl.before.cwnd[2]
NowN == ctl.now.cwnd[1]
NowD == ctl.now.cwnd[2]

\* ssthresh is max(floor(cwnd_before / 2), 2) and cwnd is 1.0
LossValues ==
    /\ NowN = NowD
    /\ ctl.now.ssthresh >= 2
    /\ \/ ctl.now.ssthresh = 2 /\ WasN < 6 * WasD
       \/ /\ ctl.now.ssthresh > 2
          /\ 2 * ctl.now.ssthresh * WasD <= WasN
          /\ WasN < 2 * (ctl.now.ssthresh + 1) * WasD

\* cwnd and ssthresh are what they were before the call
WindowKept ==
    /\ NowN * WasD = WasN * NowD
    /\ ctl.now.ssthresh = ctl.before.ssthresh

\* C12: loss recovery values.  Right after on_timeout, and right after the
\* on_duplicate_ack that brings dup_ack_count to 3, ssthresh is
\* max(floor(cwnd_before / 2), 2) and cwnd is 1.0.
C12_LossRecovery ==
    (\/ ctl.op = "on_timeout"
     \/ ctl.op = "on_duplicate_ack" /\ ctl.now.dup_ack_count = 3)
    => LossValues

\* C12 witness: the third duplicate in a row with a window of 6 or more
C12_Witness ==
    /\ ctl.op = "on_duplicate_ack"
    /\ ctl.now.dup_ack_count = 3
    /\ WasN >= 6 * WasD
    /\ ctl.now.ssthresh = 3

\* C13: slow start.  on_new_ack sets dup_ack_count to 0 and, when cwnd was
\* below ssthresh, adds exactly 1.0 to cwnd and leaves ssthresh as it was;
\* the first new ACK of a controller gives cwnd = 2.0.
C13_SlowStart ==
    ctl.op = "on_new_ack" =>
        /\ ctl.now.dup_ack_count = 0
        /\ WasN < ctl.before.ssthresh * WasD =>
              /\ NowN * WasD = (WasN + WasD) * NowD
              /\ ctl.now.ssthresh = ctl.before.ssthresh
        /\ ctl.before = CongestionController => NowN = 2 * NowD

\* C13 witness: a new ACK in slow start, after duplicates, with a window of 2
C13_Witness ==
    /\ ctl.op = "on_new_ack"
    /\ WasN = 2 * WasD
    /\ WasN < ctl.before.ssthresh * WasD
    /\ ctl.before.dup_ack_count > 0

\* C14: congestion avoidance.  When cwnd was at or above ssthresh,
\* on_new_ack adds exactly 1/cwnd, of the cwnd before the call, leaves
\* ssthresh as it was and sets dup_ack_count to 0.
C14_CongestionAvoidance ==
    (ctl.op = "on_new_ack" /\ WasN >= ctl.before.ssthresh * WasD)
    => /\ NowN * (WasN * WasD) = (WasN * WasN + WasD * WasD) * NowD
       /\ ctl.now.ssthresh = ctl.before.ssthresh
       /\ ctl.now.dup_ack_count = 0

\* C14 witness: a new ACK with a window of 5/2 at a threshold of 2
C14_Witness ==
    /\ ctl.op = "on_new_ack"
    /\ ctl.before.cwnd = <<5, 2>>
    /\ ctl.before.ssthresh = 2
    /\ ctl.now.cwnd = <<29, 10>>

\* C15: duplicate-ACK signal.  on_duplicate_ack adds 1 to dup_ack_count and
\* returns true exactly when the count is then 3, and then the loss recovery
\* values are set; otherwise it returns false and leaves cwnd and ssthresh as
\* they were.
C15_DuplicateAck ==
    ctl.op = "on_duplicate_ack" =>
        /\ ctl.now.dup_ack_count = ctl.before.dup_ack_count + 1
        /\ ctl.ret <=> (ctl.now.dup_ack_count = 3)
        /\ IF ctl.ret THEN LossValues ELSE WindowKept

\* C15 witness: the fourth duplicate in a row
C15_Witness ==
    /\ ctl.op = "on_duplicate_ack"
    /\ ctl.now.dup_ack_count = 4
    /\ ~ctl.ret

\* C16: congestion state.  After any sequence of calls on a new controller
\* cwnd >= 1.0, ssthresh is an integer >= 2 and dup_ack_count is an integer
\* >= 0.
C16_CongestionState ==
    /\ ctl.now.cwnd[2] > 0
    /\ ctl.now.cwnd[1] >= ctl.now.cwnd[2]
    /\ ctl.now.ssthresh \in Nat
    /\ ctl.now.ssthresh >= 2
    /\ ctl.now.dup_ack_count \in Nat

\* C16 witness: a timeout at the smallest window
C16_Witness ==
    /\ ctl.op = "on_timeout"
    /\ WasN = WasD
    /\ ctl.now.ssthresh = 2

----------------------------------------------------------------------------
(* The round-trip-time estimator of a sender session.  Times are fractions  *)
(* <<numerator, denominator>> of a second.                                   *)

RttFields == {"estimated_rtt", "dev_rtt", "timeout_interval"}

\* The estimator state of a session
Estimator(s) == <<s.estimated_rtt, s.dev_rtt, s.timeout_interval>>

\* C17: RTT estimator.  A sender session carries estimated_rtt, dev_rtt and
\* timeout_interval, and when it has just been created they are 0.5, 0.25
\* and 1.5 (from which a first sample of 1.0 is to give 0.575, 0.3025, 1.785).
C17_RttEstimator ==
    \A q \in DOMAIN Uploads :
        /\ RttFields \subseteq DOMAIN Uploads[q]
        /\ (last.ev = "GET" /\ last.from = q /\ last.sent # <<>>) =>
              Estimator(Uploads[q]) = <<<<1, 2>>, <<1, 4>>, <<3, 2>>>>

\* C18: Karn's rule.  A sender session carries estimator state, and that
\* state changes only in the step that handles an ACK from the session's
\* peer for a segment the session has sent once only.
KarnRule ==
    \A q \in Peers :
        (q \in DOMAIN Uploads /\ q \in DOMAIN Uploads') =>
            /\ RttFields \subseteq DOMAIN Uploads[q]
            /\ RttFields \subseteq DOMAIN Uploads'[q]
            /\ Estimator(Uploads'[q]) # Estimator(Uploads[q]) =>
                  /\ last'.ev = "ACK"
                  /\ last'.from = q
                  /\ last'.ack = Uploads[q].next_seq
                  /\ last'.ack \notin obs[Node][q].resent

----------------------------------------------------------------------------
(* Discovery and admission *)

\* The digests a payload lists
Listed(payload) == {hex(payload[i]) : i \in DOMAIN payload}

\* What the node must do with the WHOHAS datagram m
DiscoveryReply(m) ==
    LET inter == Listed(m.pkt.payload) \cap DOMAIN has_chunks[Node]
        sent == last'.sent
    IN  /\ UNCHANGED peerVars
        /\ IF Cardinality(DOMAIN Uploads) >= max_conn[Node]
           THEN /\ Len(sent) = 1
                /\ sent[1].dst = m.src
                /\ parse_header(sent[1].pkt)[1] = DENIED
           ELSE IF inter # {}
           THEN /\ Len(sent) = 1
                /\ sent[1].dst = m.src
                /\ parse_header(sent[1].pkt)[1] = IHAVE
                /\ Listed(sent[1].pkt.payload) = inter
           ELSE sent = <<>>

\* C19: discovery handling.  On WHOHAS a node whose upload sessions number
\* max_conn or more replies with exactly one DENIED; otherwise, if it holds
\* some of the requested chunks, with exactly one IHAVE that lists exactly
\* those; otherwise it sends nothing.  In no case does a session or the
\* inventory change.
C19_Discovery ==
    [][\A m \in Inbound(WHOHAS) : Arrived(m) => DiscoveryReply(m)]_vars

\* C19 witness: a WHOHAS refused while an upload session exists
C19_Witness ==
    /\ last.ev = "WHOHAS"
    /\ Cardinality(DOMAIN Uploads) >= max_conn[Node]
    /\ Len(last.sent) = 1
    /\ parse_header(last.sent[1].pkt)[1] = DENIED

\* Two requesters and one holder: peers 1 and 3 are each told to download
\* chunk B, which peer 2 alone holds; the channel delays and reorders
AdmissionNext ==
    \/ \E p \in Peers \ {Node} : Download(p, <<"B">>)
    \/ \E p \in Peers : RecvWHOHAS(p)
    \/ \E p \in Peers : RecvIHAVE(p)
    \/ \E p \in Peers : RecvDENIED(p)
    \/ \E p \in Peers : RecvGET(p)
    \/ \E p \in Peers : RecvDATA(p)
    \/ \E p \in Peers : RecvACK(p)
    \/ \E p \in Peers : Idle(p)

AdmissionSpec == Init /\ [][AdmissionNext]_vars

\* C20: admission limit.  The number of upload sessions of a node never
\* exceeds its max_conn.
C20_AdmissionLimit ==
    \A p \in Peers : Cardinality(DOMAIN usess[p]) <= max_conn[p]

----------------------------------------------------------------------------
(* Sessions per remote peer.                                                 *)

\* The download sessions of peer p whose key names the remote peer q
DownloadSessionsWith(p, q) ==
    {i \in DOMAIN dsess[p] : dsess[p][i].peer_addr = q}

\* C21: one session per peer.  In every reachable state a node has at most
\* one download session with any given remote peer (one outstanding GET per
\* peer), and at most one upload session with it.
C21_OneSessionPerPeer ==
    \A p, q \in Peers :
        /\ Cardinality(DownloadSessionsWith(p, q)) <= 1
        /\ Cardinality({a \in DOMAIN usess[p] : a = q}) <= 1

----------------------------------------------------------------------------
(* Refusals.                                                                 *)

\* Two requesters and one holder as in AdmissionSpec: peer 2 alone holds
\* chunk B and serves one peer at a time; the event loop handles every
\* datagram that has arrived
RefusalInit ==
    /\ has_chunks = [p \in Peers |->
          [h \in (IF p = Node THEN {"B"} ELSE {}) |-> ChunkData(h)]]
    /\ max_conn = [p \in Peers |-> 1]
    /\ Quiet

RefusalSpec == RefusalInit /\ [][AdmissionNext]_vars /\ WF_vars(Handle)

\* Peer p, needing chunk h and having no download session for it, has just
\* handled a DENIED from q
Refused(p, q, h) ==
    /\ last.ev = "DENIED" /\ last.peer = p /\ last.from = q
    /\ h \in needed[p]
    /\ \A i \in DOMAIN dsess[p] : dsess[p][i].chunk_hash # h

\* A handler of peer p has just sent a GET for h to a peer other than q, or a
\* WHOHAS listing h
Recovering(p, q, h) ==
    /\ last.peer = p /\ last.ev # "DOWNLOAD"
    /\ \E i \in DOMAIN last.sent :
          LET pkt == last.sent[i].pkt
              t == parse_header(pkt)[1]
          IN  \/ /\ t = GET
                 /\ last.sent[i].dst # q
                 /\ h \in Range(PayloadHashes(pkt.payload))
              \/ /\ t = WHOHAS
                 /\ h \in Range(PayloadHashes(pkt.payload))

\* C22: refusal handling.  A node that still needs a chunk and is refused
\* (DENIED) by the peer it was waiting for eventually sends a GET for the
\* chunk to another peer, or broadcasts WHOHAS for it again.
C22_RefusalHandling ==
    \A p \in Peers, q \in Peers, h \in Hashes :
        Refused(p, q, h) ~> Recovering(p, q, h)

----------------------------------------------------------------------------
(* Completion of a chunk.                                                    *)

\* This step is peer p handling the DATA segment that completes chunk h: the
\* session the handler selects accepts the segment and is complete after it
Completes(p, h) ==
    /\ last'.ev = "DATA" /\ last'.peer = p
    /\ LET k == FindDownloadSession(p, last'.from)
       IN  /\ k # 0
           /\ dsess[p][k].chunk_hash = h
           /\ LET r == add_data(dsess[p][k], last'.seq, last'.data)
              IN  r.ret /\ r.s.completed

\* The download sessions of peer p for chunk h, toward any peer
DownloadSessionsFor(p, h) ==
    {i \in DOMAIN dsess[p] : dsess[p][i].chunk_hash = h}

\* C23: chunk completion.  When a download session accepts the segment that
\* completes its chunk, the chunk leaves the needed set, the session leaves
\* the registry, and no download session for that chunk, toward any peer, is
\* left.
C23_ChunkCompletion ==
    [][\A p \in Peers, h \in Hashes :
          Completes(p, h) =>
              /\ h \notin needed'[p]
              /\ Len(dsess'[p]) = Len(dsess[p]) - 1
              /\ DownloadSessionsFor(p, h)' = {}]_vars

----------------------------------------------------------------------------
(* Malformed datagrams.                                                      *)

\* The lengths of the datagrams that are shorter than the header, and the
\* type values that name no packet type
ShortLengths == {0, 4, HEADER_LEN - 1}
UnknownTypes == {DENIED + 1, 255}

\* Datagrams that are no packets of the protocol, from either other peer
Malformed ==
    LET short == {[hdr |-> SubSeq(build_header(t, 1, 0, 0), 1, n),
                   payload |-> <<>>] :
                     t \in {GET, DATA}, n \in ShortLengths}
        unknown == {build_packet(t, 1, 1, payload) :
                       t \in UnknownTypes, payload \in {<<>>, Segment("B", 1)}}
    IN  {Dgram(q, Node, pkt) : q \in Peers \ {Node}, pkt \in short \cup unknown}

NodeMalformed ==
    /\ Node \notin crashed
    /\ \E m \in Malformed : Arrived(m)

\* The node as a sender that is also given commands, under malformed datagrams
MalformedNext ==
    \/ NodeDownload
    \/ NodeWHOHAS
    \/ NodeGET
    \/ NodeACK
    \/ NodeMalformed
    \/ Idle(Node)

MalformedSpec == NodeInit /\ [][MalformedNext]_vars

\* C24: malformed packets are not fatal.  A datagram shorter than the header,
\* or of an unknown type, is dropped: nothing is sent, no session, needed set,
\* download or inventory changes, and the node goes on handling events.
C24_MalformedDropped ==
    [][\A m \in Malformed :
          Arrived(m) =>
              /\ last'.sent = <<>>
              /\ UNCHANGED peerVars
              /\ Node \notin crashed']_vars

----------------------------------------------------------------------------
(* Requests.                                                                 *)

\* The digest a GET datagram asks for
Requested(m) == hex(m.pkt.payload[1])

\* C25: inventory miss.  A GET for a chunk the node does not hold is ignored:
\* nothing is sent, no upload session is created, and sessions, needed and
\* downloaded chunks, inventory and output are unchanged.
C25_InventoryMiss ==
    [][\A m \in Inbound(GET) :
          (Arrived(m) /\ Requested(m) \notin DOMAIN has_chunks[Node]) =>
              /\ last'.sent = <<>>
              /\ UNCHANGED peerVars]_vars

\* C25 witness: a GET from a peer without upload session has been handled and
\* has created none (the chunk is not held), while another peer is served
C25_Witness ==
    /\ last.ev = "GET"
    /\ last.from \notin DOMAIN Uploads
    /\ last.sent = <<>>
    /\ DOMAIN Uploads # {}

----------------------------------------------------------------------------
(* The output file.                                                          *)

\* This step is peer p handling the DATA segment after which it persists its
\* output: a chunk completes and leaves nothing needed
Persists(p) ==
    \E h \in Hashes : Completes(p, h) /\ needed[p] \ {h} = {}

\* After the step, peer p needs nothing, holds every chunk of the most recent
\* command whole in its downloaded map, has that map as its output, and has
\* merged it into its inventory
OutputComplete(p) ==
    /\ needed'[p] = {}
    /\ \A h \in Range(env.listed) :
          /\ h \in DOMAIN downloaded'[p]
          /\ Len(downloaded'[p][h]) = CHUNK_DATA_SIZE
    /\ files'[p] = <<downloaded'[p]>>
    /\ \A h \in DOMAIN downloaded'[p] :
          /\ h \in DOMAIN has_chunks'[p]
          /\ has_chunks'[p][h] = downloaded'[p][h]

\* Peer 2 holds chunk B and peer 3 chunk A; peer 1 is told to download a list
\* of two chunks or of one, any number of times and at any point of a
\* transfer; the channel delays and reorders
OutputLists == {<<"B", "A">>, <<"A">>}

OutputInit ==
    /\ has_chunks = [p \in Peers |->
          [h \in (CASE p = 1 -> {} [] p = 2 -> {"B"} [] OTHER -> {"A"})
              |-> ChunkData(h)]]
    /\ max_conn = [p \in Peers |-> 1]
    /\ Quiet

OutputNext ==
    \/ \E p \in Requesters, l \in OutputLists : Download(p, l)
    \/ \E p \in Peers : RecvWHOHAS(p)
    \/ \E p \in Peers : RecvIHAVE(p)
    \/ \E p \in Peers : RecvDENIED(p)
    \/ \E p \in Peers : RecvGET(p)
    \/ \E p \in Peers : RecvDATA(p)
    \/ \E p \in Peers : RecvACK(p)
    \/ \E p \in Peers : Idle(p)

OutputSpec == OutputInit /\ [][OutputNext]_vars

\* C26: output only on full completion.  The output is persisted only in a
\* state where nothing is needed and every chunk of the most recent DOWNLOAD
\* is whole in the downloaded map, which is then merged into the inventory;
\* in every other step the output stays as it was (none, before the first).
C26_OutputOnCompletion ==
    [][\A p \in Requesters :
          /\ Persists(p) => OutputComplete(p)
          /\ files'[p] # files[p] => Persists(p) /\ OutputComplete(p)]_vars

\* C26 witness: the output holds the two chunks of a command that listed two
C26_Witness ==
    \E p \in Requesters :
        /\ Len(env.listed) = 2
        /\ files[p] # <<>>
        /\ DOMAIN files[p][1] = Range(env.listed)
        /\ needed[p] = {}

----------------------------------------------------------------------------
(* The packet codec on its own: build_packet followed by parse_header.       *)

\* 32-bit values for seq and ack, around every byte boundary
Words == {0, 1, 255, 256, 65535, 65536, 16777215, 16777216, 2147483647}

\* Payload lengths in bytes, up to the largest that fits the 16-bit length
\* field, and the same in whole digests
ByteCounts == {0, 1, 244, 65535 - HEADER_LEN}
DigestCounts == {0, 1, 13, (65535 - HEADER_LEN) \div HASH_LEN}

PktTypes == {WHOHAS, IHAVE, GET, DATA, ACK, DENIED}

PayloadsOf(pkt_type) ==
    IF pkt_type \in {WHOHAS, IHAVE, GET}
    THEN {[i \in 1..n |-> fromhex("A")] : n \in DigestCounts}
    ELSE {[i \in 1..n |-> <<"A", 1>>] : n \in ByteCounts}

\* len(pkt) of a built packet
len_packet(pkt_type, pkt) == Len(pkt.hdr) + len_payload(pkt_type, pkt.payload)

\* pkt = Packet.build_packet(pkt_type, seq, ack, payload), then
\* Packet.parse_header(pkt): ctl keeps the arguments (the payload by its
\* length), the header bytes and length of pkt, and what parse_header returns
CallBuildPacket ==
    /\ ctl.op # "build_packet"
    /\ \E pkt_type \in PktTypes, seq \in Words, ack \in Words :
        \E payload \in PayloadsOf(pkt_type) :
            LET pkt == build_packet(pkt_type, seq, ack, payload)
            IN  ctl' = Called(<<pkt_type, seq, ack,
                                len_payload(pkt_type, payload)>>,
                              "build_packet",
                              [hdr |-> pkt.hdr,
                               len |-> len_packet(pkt_type, pkt)],
                              parse_header(pkt))
    /\ UNCHANGED <<peerVars, net, crashed, env, obs, last>>

CodecSpec == NodeInit /\ [][CallBuildPacket]_vars

\* C27: codec round trip.  For every packet type, seq, ack and payload that
\* fits the length field, parse_header of the built packet returns
\* (type, HEADER_LEN, HEADER_LEN + len(payload), seq, ack), and the packet is
\* HEADER_LEN + len(payload) bytes long.
C27_CodecRoundTrip ==
    ctl.op = "build_packet" =>
        /\ ctl.ret = <<ctl.before[1], HEADER_LEN, HEADER_LEN + ctl.before[4],
                       ctl.before[2], ctl.before[3]>>
        /\ ctl.now.len = HEADER_LEN + ctl.before[4]
        /\ Len(ctl.now.hdr) = HEADER_LEN

\* C27 witness: a DATA packet with the largest payload and seq has been built
\* and parsed
C27_Witness ==
    /\ ctl.op = "build_packet"
    /\ ctl.before = <<DATA, 2147483647, 256, 65535 - HEADER_LEN>>
    /\ ctl.ret[3] = 65535

----------------------------------------------------------------------------
(* Life of an upload session.                                                *)

\* C28: upload-session lifecycle.  Every upload session is eventually removed
\* from the registry, also when the remote peer stops acknowledging (a DATA
\* or an ACK of the transfer is lost).
C28_UploadLifecycle ==
    \A p \in Peers, q \in Peers :
        (q \in DOMAIN usess[p]) ~> (q \notin DOMAIN usess[p])

\* What admission of the request m creates and sends: one upload session for
\* the requesting peer and the requested chunk, the other sessions as they
\* were, and one DATA with sequence number 1 and the first segment of the chunk
Admitted(m) ==
    LET q == m.src
        h == Requested(m)
    IN  /\ DOMAIN usess'[Node] = DOMAIN usess[Node] \cup {q}
        /\ usess'[Node][q].chunk_hash = h
        /\ usess'[Node][q].peer_addr = q
        /\ usess'[Node][q].chunk_data = has_chunks[Node][h]
        /\ \A r \in DOMAIN usess[Node] : usess'[Node][r] = usess[Node][r]
        /\ last'.sent =
               <<Dgram(Node, q, build_packet(DATA, 1, 0, Segment(h, 1)))>>
        /\ UNCHANGED <<has_chunks, max_conn, needed, downloaded, dsess, files>>

----------------------------------------------------------------------------
(* Offers.                                                                   *)

\* The digests of the offer m that peer p needs and has no download session
\* for with the offering peer
Eligible(p, m) ==
    {h \in Range(PayloadHashes(m.pkt.payload)) :
        h \in needed[p] /\ ~HasDownloadSession(p, m.src, h)}

\* What handling the offer m does at peer p
OfferHandled(p, m) ==
    /\ Len(last'.sent) <= 1
    /\ \A i \in DOMAIN last'.sent :
          LET pkt == last'.sent[i].pkt
              h == Requested(last'.sent[i])
          IN  /\ parse_header(pkt)[1] = GET
              /\ last'.sent[i].dst = m.src
              /\ Len(pkt.payload) = 1
              /\ h \in Eligible(p, m)
              /\ dsess'[p] = Append(dsess[p], DownloadSession(h, m.src))
    /\ last'.sent = <<>> => dsess'[p] = dsess[p]
    /\ Eligible(p, m) = {} => last'.sent = <<>>
    /\ \A r \in Peers \ {p} : dsess'[r] = dsess[r]
    /\ UNCHANGED <<has_chunks, max_conn, needed, downloaded, usess, files>>

----------------------------------------------------------------------------
(* The DOWNLOAD command.                                                     *)

\* The datagrams a command listing l makes peer p send: one WHOHAS that lists
\* l to every other peer, nothing when l is empty
Broadcast(p, l, sent) ==
    IF l = <<>> THEN sent = <<>>
    ELSE /\ Len(sent) = Cardinality(Peers \ {p})
         /\ \A q \in Peers \ {p} :
               Cardinality({i \in DOMAIN sent : sent[i].dst = q}) = 1
         /\ \A i \in DOMAIN sent :
               /\ sent[i].src = p /\ sent[i].dst # p
               /\ parse_header(sent[i].pkt)[1] = WHOHAS
               /\ PayloadHashes(sent[i].pkt.payload) = l

\* C31: download start.  A DOWNLOAD command sets the needed set to exactly the
\* listed digests, empties the downloaded map, and sends exactly one WHOHAS
\* listing every digest to every other peer; with an empty list it sends
\* nothing.
C31_DownloadStart ==
    last.ev = "DOWNLOAD" =>
        /\ needed[last.peer] = Range(env.listed)
        /\ downloaded[last.peer] = <<>>
        /\ Broadcast(last.peer, env.listed, last.sent)

\* C31 witness: a command listing a chunk, given after an earlier download
\* has completed and persisted its output
C31_Witness ==
    /\ last.ev = "DOWNLOAD"
    /\ env.listed # <<>>
    /\ files[last.peer] # <<>>
    /\ Len(last.sent) = 2

----------------------------------------------------------------------------
(* Acknowledgments.                                                          *)

\* The number an ACK datagram acknowledges
Acked(m) == parse_header(m.pkt)[5]

\* The upload session with the sender of m has sent segments 1..next_seq, and
\* next_seq is the oldest (the only) one outstanding: m acknowledges a
\* segment beyond it, or one that was never sent
AckBeyond(m) ==
    /\ m.src \in DOMAIN usess[Node]
    /\ \/ Acked(m) > usess[Node][m.src].next_seq
       \/ Acked(m) < 1

\* C32: ignored acknowledgments.  An ACK whose number is greater than the
\* oldest outstanding sequence number of the sender session, or that is for a
\* sequence number never sent, leaves the session unchanged and sends nothing.
C32_IgnoredAcks ==
    [][\A m \in Inbound(ACK) :
          (Arrived(m) /\ AckBeyond(m)) =>
              /\ last'.sent = <<>>
              /\ UNCHANGED peerVars]_vars

\* C32 witness: in the middle of a transfer an ACK beyond the outstanding
\* segment was handled
C32_Witness ==
    /\ last.ev = "ACK"
    /\ last.from \in DOMAIN Uploads
    /\ Uploads[last.from].next_seq > 1
    /\ last.ack > Uploads[last.from].next_seq
    /\ last.sent = <<>>

----------------------------------------------------------------------------
(* The sender of a chunk of any length.                                      *)

\* The lengths of the chunk the node holds: one byte, one segment, one byte
\* less than the chunk size, the chunk size
ChunkLengths == {1, MAX_PAYLOAD, CHUNK_DATA_SIZE - 1, CHUNK_DATA_SIZE}

UploadInit ==
    /\ \E n \in ChunkLengths :
          has_chunks = [p \in Peers |->
              [h \in (IF p = Node THEN {"A"} ELSE {}) |->
                  SubSeq(ChunkData(h), 1, n)]]
    /\ max_conn = [p \in Peers |-> 1]
    /\ Quiet

UploadSpec == UploadInit /\ [][SenderNext]_vars

\* N = ceil(chunk length / MAX_PAYLOAD) for the chunk of an upload session
LastSeg(s) == (Len(s.chunk_data) + MAX_PAYLOAD - 1) \div MAX_PAYLOAD

\* Every DATA the last handler sent is a segment k in 1..N of the chunk of the
\* session with its destination: MAX_PAYLOAD bytes, or the rest of the chunk
\* when k = N
SegmentsInRange ==
    \A i \in DOMAIN last.sent :
        LET pkt == last.sent[i].pkt
            k == parse_header(pkt)[4]
            q == last.sent[i].dst
        IN  parse_header(pkt)[1] = DATA =>
                /\ q \in DOMAIN Uploads
                /\ k \in 1..LastSeg(Uploads[q])
                /\ pkt.payload =
                       SubSeq(Uploads[q].chunk_data, (k - 1) * MAX_PAYLOAD + 1,
                              Min({k * MAX_PAYLOAD, Len(Uploads[q].chunk_data)}))
                /\ Len(pkt.payload) \in 1..MAX_PAYLOAD
                /\ k < LastSeg(Uploads[q]) => Len(pkt.payload) = MAX_PAYLOAD

\* A session is removed in the step, and marked complete by it, exactly when
\* the step handles the ACK for segment N while N is the segment outstanding
RemovedOnLastAck ==
    \A q \in DOMAIN usess[Node] :
        LET s == usess[Node][q]
            final == /\ last'.ev = "ACK" /\ last'.from = q
                     /\ last'.ack = LastSeg(s) /\ s.next_seq = LastSeg(s)
        IN  /\ (q \notin DOMAIN usess'[Node]) <=> final
            /\ handle_ack(s, last'.ack).s.completed <=> (last'.ack = LastSeg(s) /\ s.next_seq = LastSeg(s))
            /\ ~s.completed

\* C33: sender completion.  A chunk goes out as segments 1..N,
\* N = ceil(length / MAX_PAYLOAD), each of MAX_PAYLOAD bytes but possibly the
\* last; the session is complete and leaves the registry exactly when the ACK
\* for N is handled after those for 1..N-1; no DATA beyond N is sent.
C33_SenderCompletion ==
    [][SegmentsInRange' /\ RemovedOnLastAck]_vars

\* C33 witness: the ACK for segment N-1 has been handled and the last segment,
\* shorter than MAX_PAYLOAD, has been sent; N is now the segment outstanding
C33_Witness ==
    /\ last.ev = "ACK"
    /\ last.from \in DOMAIN Uploads
    /\ LastSeg(Uploads[last.from]) = SegsPerChunk
    /\ Uploads[last.from].next_seq = SegsPerChunk
    /\ Len(last.sent) = 1
    /\ parse_header(last.sent[1].pkt)[4] = SegsPerChunk
    /\ Len(last.sent[1].pkt.payload) < MAX_PAYLOAD

----------------------------------------------------------------------------
(* Packets without a session.                                                *)

\* The peer that requests from the node, and the peer that offers to it
Client == Min(Peers \ {Node})
Source == Min(Peers \ {Node, Client})

NodeRequest ==
    /\ Node \notin crashed
    /\ \E m \in Inbound(GET) : m.src = Client /\ Arrived(m)

NodeOffer ==
    /\ Node \notin crashed
    /\ \E m \in Inbound(IHAVE) : m.src = Source /\ Arrived(m)

\* The node as sender to one peer and receiver from the other, while segments
\* and acknowledgments arrive from both
InertNext ==
    \/ NodeDownload
    \/ NodeOffer
    \/ NodeRequest
    \/ NodeDATA
    \/ NodeACK
    \/ Idle(Node)

InertSpec == NodeInit /\ [][InertNext]_vars

\* The handler sends nothing and changes no session, needed set, downloaded
\* map, inventory or output
Inert == last'.sent = <<>> /\ UNCHANGED peerVars

\* C34: packets without a matching session are inert.  A DATA from a peer with
\* which the node has no download session, and an ACK from a peer with which
\* it has no upload session, cause no reply and change no state.
C34_InertPackets ==
    [][/\ \A m \in Inbound(DATA) :
            (Arrived(m) /\ DownloadSessionsWith(Node, m.src) = {}) => Inert
       /\ \A m \in Inbound(ACK) :
            (Arrived(m) /\ m.src \notin DOMAIN usess[Node]) => Inert]_vars

\* C34 witness: the first segment arrived from a peer without download
\* session while a download from the other peer awaits that segment, and an
\* upload is under way
C34_Witness ==
    /\ last.ev = "DATA" /\ last.seq = 1
    /\ DownloadSessionsWith(Node, last.from) = {}
    /\ \E i \in DOMAIN Downloads : Downloads[i].expected_seq = 1
    /\ DOMAIN Uploads # {}
    /\ last.sent = <<>>

----------------------------------------------------------------------------
(* The controller between two new ACKs.                                      *)

\* on_duplicate_ack returns true in this step
Signals == ctl'.op = "on_duplicate_ack" /\ ctl'.ret

\* C35: a single fast retransmit per episode.  Between two consecutive
\* on_new_ack calls on_duplicate_ack returns true at most once, also with
\* on_timeout calls in between: it returns true only when the count of
\* duplicates passes from below 3 to 3, and only on_new_ack lowers the count.
C35_SingleFastRetransmit ==
    [][/\ Signals => /\ ctl.now.dup_ack_count < 3
                     /\ ctl'.now.dup_ack_count = 3
       /\ ctl'.op # "on_new_ack" =>
              ctl'.now.dup_ack_count >= ctl.now.dup_ack_count
       /\ (ctl'.op = "on_duplicate_ack" /\ ctl.now.dup_ack_count >= 3) =>
              /\ ~ctl'.ret
              /\ ctl'.now.cwnd = ctl.now.cwnd
              /\ ctl'.now.ssthresh = ctl.now.ssthresh]_vars

\* C35 witness: a timeout in the middle of an episode that has seen four
\* duplicate ACKs in a row; the count stays at 4
C35_Witness ==
    /\ ctl.op = "on_timeout"
    /\ ctl.before.dup_ack_count = 4
    /\ ctl.now.dup_ack_count = 4

----------------------------------------------------------------------------
(* The window the controller reports.                                        *)

\* The call was an on_new_ack in congestion avoidance: cwnd >= ssthresh before
Avoiding ==
    /\ ctl.op = "on_new_ack"
    /\ WasN >= ctl.before.ssthresh * WasD

\* w is the integer floor of the fraction n / d
IsFloor(w, n, d) == w * d <= n /\ n < (w + 1) * d

\* C36: reported window.  get_cwnd returns floor(cwnd) and is at least 1; no
\* on_new_ack raises it by more than 1; in congestion avoidance it stays as it
\* was until the window with its accumulated fractions reaches the next
\* integer.
C36_ReportedWindow ==
    /\ IsFloor(get_cwnd(ctl.now), NowN, NowD)
    /\ IsFloor(get_cwnd(ctl.before), WasN, WasD)
    /\ get_cwnd(ctl.now) >= 1
    /\ ctl.op = "on_new_ack" =>
          get_cwnd(ctl.now) - get_cwnd(ctl.before) \in {0, 1}
    /\ Avoiding =>
          (get_cwnd(ctl.now) = get_cwnd(ctl.before)
              <=> NowN < (get_cwnd(ctl.before) + 1) * NowD)

\* C36 witness: in congestion avoidance the fractions accumulated over several
\* new ACKs have just taken the reported window to the next integer
C36_Witness ==
    /\ Avoiding
    /\ WasN % WasD # 0
    /\ NowN % NowD # 0
    /\ get_cwnd(ctl.now) = get_cwnd(ctl.before) + 1

----------------------------------------------------------------------------
(* Completion of a command.                                                  *)

\* C37: completion is signalled at most once per DOWNLOAD command.  After the
\* one command of a run the output is persisted and the completion message
\* printed at most once: a step that persists the output finds none written.
C37_CompletionOnce ==
    [][\A p \in Requesters : Persists(p) => files[p] = <<>>]_vars

----------------------------------------------------------------------------
(* The needed set and the downloaded map.                                    *)

\* Every digest of the most recent command is in exactly one of the needed
\* set and the downloaded map, and the needed set holds listed digests only
Partition ==
    \A p \in Requesters :
        /\ \A h \in Range(env.listed) :
              (h \in needed[p]) # (h \in DOMAIN downloaded[p])
        /\ needed[p] \subseteq Range(env.listed)

\* Digest h leaves the needed set of peer p in this step
Leaves(p, h) == h \in needed[p] /\ h \notin needed'[p]

\* This step is a DOWNLOAD command at peer p that does not list h
Relisted(p, h) ==
    /\ last'.ev = "DOWNLOAD" /\ last'.peer = p
    /\ h \notin Range(env'.listed)

\* C38 as stated: the partition holds in every state, and a digest leaves the
\* needed set only at the step where a download session for it completes.
C38_PartitionAsStated ==
    /\ Partition
    /\ [][/\ Partition'
          /\ \A p \in Requesters, h \in Hashes :
                Leaves(p, h) => Completes(p, h)]_vars

\* C38: needed/downloaded partition.  The partition holds in every state, and
\* a digest leaves the needed set only at the step where a download session
\* for it completes, or at a DOWNLOAD command that does not list it.
C38_Partition ==
    /\ Partition
    /\ [][/\ Partition'
          /\ \A p \in Requesters, h \in Hashes :
                Leaves(p, h) => Completes(p, h) \/ Relisted(p, h)]_vars

\* C38 witness: after a second command, one listed chunk has completed and
\* the other is still needed
C38_Witness ==
    \E p \in Requesters :
        /\ env.downloads = 2
        /\ Len(env.listed) = 2
        /\ last.ev = "DATA" /\ last.peer = p
        /\ needed[p] # {}
        /\ DOMAIN downloaded[p] # {}

----------------------------------------------------------------------------
(* The order in which a sender sends.                                        *)

\* The highest segment the node has sent to q in its session with q (0
\* without session): a session has sent segments 1..next_seq
HighestSent(q) ==
    IF q \in DOMAIN usess[Node] THEN usess[Node][q].next_seq ELSE 0

\* This step handles the ACK from q for the segment outstanding
AcceptsAck(q) ==
    /\ last'.ev = "ACK" /\ last'.from = q
    /\ q \in DOMAIN usess[Node]
    /\ last'.ack = usess[Node][q].next_seq

\* This step handles a GET from q that opens a session
Opens(q) ==
    /\ last'.ev = "GET" /\ last'.from = q
    /\ q \notin DOMAIN usess[Node]
    /\ q \in DOMAIN usess'[Node]

\* Every DATA the step sends to q is a segment sent before, or the one after
\* the highest sent, and then the step opens the session (segment 1) or
\* handles the ACK for the highest sent
InOrder(q) ==
    \A k \in DataSeqsTo(last'.sent, q) :
        /\ k \in 1..(HighestSent(q) + 1)
        /\ k = HighestSent(q) + 1 =>
              /\ Opens(q) \/ AcceptsAck(q)
              /\ q \in DOMAIN usess'[Node]
              /\ usess'[Node][q].next_seq = k

\* While the session lasts next_seq never decreases, and it grows, by exactly
\* 1, in the steps that handle the ACK for the segment outstanding
Advances(q) ==
    (q \in DOMAIN usess[Node] /\ q \in DOMAIN usess'[Node]) =>
        /\ usess'[Node][q].next_seq >= usess[Node][q].next_seq
        /\ AcceptsAck(q) <=>
              usess'[Node][q].next_seq = usess[Node][q].next_seq + 1
        /\ ~AcceptsAck(q) =>
              usess'[Node][q].next_seq = usess[Node][q].next_seq

----------------------------------------------------------------------------
(* Agreement of sender and receiver on the end of a transfer.                *)

\* This step removes the upload session of p for q: p handles the ACK of the
\* last segment of a chunk of the fixed size
Finishes(p, q) ==
    /\ q \in DOMAIN usess[p] /\ q \notin DOMAIN usess'[p]
    /\ Len(usess[p][q].chunk_data) = CHUNK_DATA_SIZE

\* The receiver q is done with the chunk the session of p for q carries: no
\* download session for it with p is left
ReceiverDone(p, q) ==
    ~HasDownloadSession(q, p, usess[p][q].chunk_hash)

\* The receiver q completes chunk h on a segment from p: then that segment
\* is the one outstanding in the upload session of p for q, which carries h,
\* and its ACK completes that session
SameSegment(p, q, h) ==
    (Completes(q, h) /\ last'.from = p) =>
        /\ q \in DOMAIN usess[p]
        /\ usess[p][q].chunk_hash = h
        /\ usess[p][q].next_seq = last'.seq
        /\ handle_ack(usess[p][q], last'.seq).s.completed

\* C40: completion agreement.  When an upload session for a chunk of the
\* fixed size is removed, the peer's download session for that chunk has
\* completed and been removed, and the receiver completes on the segment
\* whose ACK completes the sender.
C40_CompletionAgreement ==
    [][\A p \in Peers : \A q \in Peers \ {p} :
          /\ Finishes(p, q) => ReceiverDone(p, q)
          /\ \A h \in Hashes : SameSegment(p, q, h)]_vars

====
